---------------------------- MODULE Spec2Model ----------------------------
(***************************************************************************)
(* Remote audio acquisition and normalisation pipeline of TAU-Benchmark:   *)
(* the three fetch adapters and crop_audio of utils.py, timestamp_to_ms    *)
(* and the orchestrator main of process_audio_json.py, and the entry       *)
(* points resample.py and process_audio.py.                                *)
(*                                                                         *)
(* Python values are encoded uniformly so that TLC can compare them:       *)
(*   a path is a record [dir, id, idx, ext]; the empty string is NoPath;   *)
(*   a URL is [segs, amp]: its "/"-separated segments and the pieces that  *)
(*   follow each "&"; the empty string is NoLink;                          *)
(*   a returned value is [type, path, fetched] with type "tuple", "str"    *)
(*   or "NoneType".                                                        *)
(***************************************************************************)
EXTENDS Integers, Sequences, FiniteSets, TLC

VARIABLES
    fs,         \* destination files: path -> content
    tmp,        \* scratch files under tmp/
    ffmpeg,     \* whether shutil.which("ffmpeg") finds the transcoder
    req,        \* the arguments of the calls made: the acquisition request of
                \* the adapters (SpecFetch), the time string (SpecStamp), the
                \* entry point run (SpecEntry)
    calls,      \* history of the calls made with req (SpecFetch, SpecStamp)
    crops,      \* the direct crop_audio call made, if any (SpecCrop)
    data,       \* main, entry points: the rows of the input file read so far
    run,        \* main: the number of the run (0 when main is not run)
    pc,         \* main: "rows", "refs", "done", "crashed" ("idle" when not run)
    idx,        \* main: index of the row of the outer loop
    ref,        \* main: audio_idx, the index of the reference of the inner loop
    audio_data, \* main: the descriptors collected for the row
    out,        \* main: the records of the output file
    log,        \* main: the adapter calls, crops and writes made, in order
    success_count,  \* resample.py: the downloads counted as successful
    annotator_idx,          \* distribute.py: the round-robin index
    entries_per_annotator,  \* distribute.py: the entries given to each annotator
    entry_cnt,              \* distribute.py: the copies of the entry still to give
    distributed             \* distribute.py: the annotators given the entry

mainVars == <<data, run, pc, idx, ref, audio_data, out, log, success_count>>

distVars == <<annotator_idx, entries_per_annotator, entry_cnt, distributed>>

vars == <<fs, tmp, ffmpeg, req, calls, crops, mainVars, distVars>>

\* distribute.py is not run
IdleDist ==
    /\ annotator_idx = 0
    /\ entries_per_annotator = <<>>
    /\ entry_cnt = 0
    /\ distributed = {}

\* main is not run
IdleMain ==
    /\ data = <<>>
    /\ run = 0
    /\ pc = "idle"
    /\ idx = 0
    /\ ref = 0
    /\ audio_data = <<>>
    /\ out = <<>>
    /\ log = <<>>
    /\ success_count = 0
    /\ IdleDist

-----------------------------------------------------------------------------
(* Bounds of the model *)

\* number of successive adapter calls in SpecFetch
MaxCalls == 2
\* number of rows of the input file of main
NumEntries == 2
\* number of runs of main over the same input and audio directory
MaxRuns == 2
\* length in ms of the audio behind a remote URL
RemoteLen == 3
\* largest start_ms and end_ms requested in SpecCrop
MaxMs == 4
\* largest decoded length of the file cropped in SpecCrop
MaxSrcLen == 4
\* largest max_length passed in SpecCrop
MaxWindow == 2
\* largest number of characters of the time strings enumerated in SpecStamp
MaxStampLen == 5
NumAnnotators == 3
MaxPerAnnotator == 2
MaxDistEntries == 3

-----------------------------------------------------------------------------
(* Paths, URLs and returned values *)

NoPath == [dir |-> "", id |-> "", idx |-> 0, ext |-> ""]

NoLink == [segs |-> <<>>, amp |-> <<>>]

\* audio_idx is None (0 here, equally falsy) or an index
NoIdx == 0

\* output_id is None ("" here, equally falsy) or an identifier
NoId == ""

Formats == {"mp3", "wav"}

AudioDir == "data/audio"

\* the identifiers uuid4 can produce
UUIDs == {"U1", "U2"}

DriveUrl == [segs |-> <<"drive.google.com", "XYZ", "view">>, amp |-> <<>>]
DriveBare == [segs |-> <<"drive.google.com">>, amp |-> <<>>]
YtUrl == [segs |-> <<"youtu.be", "vid">>, amp |-> <<"t=10">>]
HttpUrl == [segs |-> <<"host", "a.mp3">>, amp |-> <<>>]

Tuple(p, f) == [type |-> "tuple", path |-> p, fetched |-> f]
Str(p) == [type |-> "str", path |-> p, fetched |-> FALSE]
None == [type |-> "NoneType", path |-> NoPath, fetched |-> FALSE]

\* bool(v): None, "" and () are falsy; a non-empty tuple is truthy
Truthy(v) ==
    CASE v.type = "NoneType" -> FALSE
      [] v.type = "str" -> v.path # NoPath
      [] OTHER -> TRUE

Exists(files, p) == p \in DOMAIN files

\* os.path.join(output_path, f"{output_id}_{audio_idx}.{format}") or, for a
\* falsy audio_idx, os.path.join(output_path, f"{output_id}.{format}")
OutputFile(output_path, output_id, audio_idx, format) ==
    IF audio_idx # NoIdx
    THEN [dir |-> output_path, id |-> output_id, idx |-> audio_idx, ext |-> format]
    ELSE [dir |-> output_path, id |-> output_id, idx |-> NoIdx, ext |-> format]

\* if not output_id: output_id = str(uuid.uuid4().hex)[:8].upper()
OutputId(output_id, env) == IF output_id = NoId THEN env.uuid ELSE output_id

\* what a fetch stores: the audio behind url, whole; a file that is not
\* audio has audio |-> FALSE
Audio(url) == [src |-> url, lo |-> 0, hi |-> RemoteLen, audio |-> TRUE]
Garbage(url) == [src |-> url, lo |-> 0, hi |-> 0, audio |-> FALSE]

\* len(audio) of a decoded file, in ms
AudioLen(content) == content.hi - content.lo

\* the outcome of a call: the value returned (or raised), the files after
\* it, the number of transfers started and the waits slept
Outcome(ret, raised, files, scratch, net, waits) ==
    [ret |-> ret, raised |-> raised, fs |-> files, tmp |-> scratch,
     net |-> net, waits |-> waits]


-----------------------------------------------------------------------------
(* utils.py: the fetch adapters.  env is what the host and the network do  *)
(* during the call: env.okAt is the first gdown attempt that succeeds      *)
(* (Attempts when none does), env.pydub whether pydub decodes the file    *)
(* ("nodecode" when from_file raises) and encodes the result ("noexport"   *)
(* when export raises, which is after it has opened, and so emptied, the   *)
(* file it writes), env.ydl whether yt_dlp downloads, env.curl what the    *)
(* curl command leaves, env.uuid the identifier uuid4 draws, env.ffmpeg    *)
(* whether the transcoder is on the PATH.                                  *)

\* for attempt in range(5)
Attempts == 5

RECURSIVE Pow(_, _)
Pow(b, n) == IF n = 0 THEN 1 ELSE b * Pow(b, n - 1)

\* time.sleep(3 ** (attempt + 1) + random.uniform(0, 1)): the whole seconds
Backoff(attempt) == Pow(3, attempt + 1)

\* gdown.download(...) of one attempt returns a file name
GdownOK(env, attempt) == env.okAt = attempt

\* the retry loop with time.sleep before the test of the last attempt
RECURSIVE RetryLoopFinalWait(_, _)
RetryLoopFinalWait(attempt, env) ==
    IF GdownOK(env, attempt)
    THEN [ok |-> TRUE, attempts |-> attempt + 1, waits |-> <<>>]
    ELSE IF attempt = Attempts - 1
         THEN [ok |-> FALSE, attempts |-> attempt + 1,
               waits |-> <<Backoff(attempt)>>]
         ELSE LET rest == RetryLoopFinalWait(attempt + 1, env)
              IN  [rest EXCEPT !.waits = <<Backoff(attempt)>> \o @]

\* the retry loop from `attempt` on: whether a download succeeded, the
\* attempts made and the waits slept
RECURSIVE RetryLoop(_, _)
RetryLoop(attempt, env) ==
    IF GdownOK(env, attempt)
    THEN [ok |-> TRUE, attempts |-> attempt + 1, waits |-> <<>>]
    ELSE IF attempt = Attempts - 1
         THEN [ok |-> FALSE, attempts |-> attempt + 1, waits |-> <<>>]
         ELSE LET rest == RetryLoop(attempt + 1, env)
              IN  [rest EXCEPT !.waits = <<Backoff(attempt)>> \o @]

\* url.split("/")[-2] exists
HasFileId(url) == Len(url.segs) >= 2

\* file_id = url.split("/")[-2]
FileId(url) == url.segs[Len(url.segs) - 1]

\* the download and the conversion without os.remove(downloaded_file)
DriveKeepsScratch(url, output_file, files, scratch, env) ==
    LET r == RetryLoop(0, env)
        downloaded_file == FileId(url)
    IN  IF ~r.ok
        THEN Outcome(Tuple(NoPath, FALSE), FALSE, files, scratch,
                     r.attempts, r.waits)
        ELSE IF env.pydub = "nodecode"
        THEN Outcome(None, TRUE, files, scratch \cup {downloaded_file},
                     r.attempts, r.waits)
        ELSE IF env.pydub = "noexport"
        THEN Outcome(None, TRUE, (output_file :> Garbage(url)) @@ files,
                     scratch \cup {downloaded_file}, r.attempts, r.waits)
        ELSE Outcome(Tuple(output_file, TRUE), FALSE,
                     (output_file :> Audio(url)) @@ files,
                     scratch \cup {downloaded_file}, r.attempts, r.waits)

\* the download with its retries, then decode, resample, export and removal
\* of the scratch file
DriveTransfer(url, output_file, files, scratch, env) ==
    LET r == RetryLoop(0, env)
        downloaded_file == FileId(url)
    IN  IF ~r.ok
        THEN Outcome(Tuple(NoPath, FALSE), FALSE, files, scratch,
                     r.attempts, r.waits)
        ELSE IF env.pydub = "nodecode"
        THEN Outcome(None, TRUE, files, scratch \cup {downloaded_file},
                     r.attempts, r.waits)
        ELSE IF env.pydub = "noexport"
        THEN Outcome(None, TRUE, (output_file :> Garbage(url)) @@ files,
                     scratch \cup {downloaded_file}, r.attempts, r.waits)
        ELSE Outcome(Tuple(output_file, TRUE), FALSE,
                     (output_file :> Audio(url)) @@ files,
                     scratch \ {downloaded_file}, r.attempts, r.waits)

\* download_from_google_drive without its os.path.exists test
DriveAlwaysDownloads(url, format, output_path, output_id, audio_idx, files, scratch, env) ==
    LET id == OutputId(output_id, env)
        output_file == OutputFile(output_path, id, audio_idx, format)
    IN  IF ~HasFileId(url)
        THEN Outcome(None, TRUE, files, scratch, 0, <<>>)
        ELSE DriveTransfer(url, output_file, files, scratch, env)

download_from_google_drive(url, format, output_path, output_id, audio_idx, files, scratch, env) ==
    LET id == OutputId(output_id, env)
        output_file == OutputFile(output_path, id, audio_idx, format)
    IN  IF ~HasFileId(url)
        THEN Outcome(None, TRUE, files, scratch, 0, <<>>)
        ELSE IF Exists(files, output_file)
        THEN Outcome(Tuple(output_file, FALSE), FALSE, files, scratch, 0, <<>>)
        ELSE DriveTransfer(url, output_file, files, scratch, env)

download_from_yt(url, format, output_path, output_id, audio_idx, files, scratch, env) ==
    IF ~env.ffmpeg
    THEN Outcome(None, TRUE, files, scratch, 0, <<>>)
    ELSE LET id == OutputId(output_id, env)
             output_file == OutputFile(output_path, id, audio_idx, format)
         IN  IF Exists(files, output_file)
             THEN Outcome(Tuple(output_file, FALSE), FALSE, files, scratch,
                          0, <<>>)
             ELSE IF env.ydl
             THEN Outcome(Tuple(output_file, TRUE), FALSE,
                          (output_file :> Audio(url)) @@ files, scratch,
                          1, <<>>)
             ELSE Outcome(Tuple(NoPath, FALSE), FALSE, files, scratch,
                          1, <<>>)

\* what `curl -sL url -o output_file` leaves at output_file
CurlWrites(url, output_file, files, env) ==
    CASE url = NoLink -> files
      [] env.curl = "ok" -> (output_file :> Audio(url)) @@ files
      [] env.curl = "garbage" -> (output_file :> Garbage(url)) @@ files
      [] OTHER -> files

download_from_curl(url, format, output_path, output_id, audio_idx, files, scratch, env) ==
    LET id == OutputId(output_id, env)
        output_file == OutputFile(output_path, id, audio_idx, format)
    IN  IF Exists(files, output_file)
        THEN Outcome(Tuple(output_file, FALSE), FALSE, files, scratch, 0, <<>>)
        ELSE Outcome(Tuple(output_file, TRUE), FALSE,
                     CurlWrites(url, output_file, files, env), scratch,
                     1, <<>>)

Pydub == {"ok", "nodecode", "noexport"}

\* the environments that differ for each adapter
BaseEnv ==
    [okAt |-> 0, pydub |-> "ok", ydl |-> TRUE, curl |-> "ok",
     uuid |-> "U1", ffmpeg |-> ffmpeg]

DriveEnv ==
    {[BaseEnv EXCEPT !.okAt = k, !.pydub = d, !.uuid = u] :
        k \in 0..Attempts, d \in Pydub, u \in UUIDs}

YtEnv == {[BaseEnv EXCEPT !.ydl = y, !.uuid = u] : y \in BOOLEAN, u \in UUIDs}

CurlEnv ==
    {[BaseEnv EXCEPT !.curl = c, !.uuid = u] :
        c \in {"ok", "nofile", "garbage"}, u \in UUIDs}

-----------------------------------------------------------------------------
(* SpecFetch: successive calls of the adapters, on one host, with the       *)
(* arguments of one acquisition request                                    *)

Urls == {DriveUrl, DriveBare, YtUrl, HttpUrl}
Ids == {NoId, "A"}
Idxs == {NoIdx, 1, 2}

Args == [url : Urls, format : Formats, output_path : {AudioDir},
         output_id : Ids, audio_idx : Idxs]

\* one call and what it did: the destination files and the scratch files
\* before and after it, the value returned, the transfers started, the
\* waits slept; okAt is the gdown attempt that could succeed during it
Call(fn, env, before, o) ==
    [fn |-> fn, before |-> before, ret |-> o.ret, raised |-> o.raised,
     after |-> o.fs, net |-> o.net, waits |-> o.waits,
     scratch |-> tmp, left |-> o.tmp, okAt |-> env.okAt]

Record(fn, env, o) ==
    /\ fs' = o.fs
    /\ tmp' = o.tmp
    /\ calls' = Append(calls, Call(fn, env, fs, o))
    /\ UNCHANGED <<ffmpeg, distVars, req, crops, mainVars>>

CallDrive ==
    /\ Len(calls) < MaxCalls
    /\ \E env \in DriveEnv :
        Record("drive", env,
               download_from_google_drive(req.url, req.format, req.output_path,
                   req.output_id, req.audio_idx, fs, tmp, env))

CallYt ==
    /\ Len(calls) < MaxCalls
    /\ \E env \in YtEnv :
        Record("yt", env,
               download_from_yt(req.url, req.format, req.output_path,
                   req.output_id, req.audio_idx, fs, tmp, env))

CallCurl ==
    /\ Len(calls) < MaxCalls
    /\ \E env \in CurlEnv :
        Record("curl", env,
               download_from_curl(req.url, req.format, req.output_path,
                   req.output_id, req.audio_idx, fs, tmp, env))

EmptyFs == [p \in {} |-> Audio(NoLink)]

InitFetch ==
    /\ fs = EmptyFs
    /\ tmp = {}
    /\ ffmpeg \in BOOLEAN
    /\ req \in Args
    /\ calls = <<>>
    /\ crops = <<>>
    /\ IdleMain

NextFetch == CallDrive \/ CallYt \/ CallCurl

SpecFetch == InitFetch /\ [][NextFetch]_vars

\* the destination of req when it names its output_id
ReqFile == OutputFile(req.output_path, req.output_id, req.audio_idx, req.format)

\* the destinations req can have: ReqFile, or one per identifier uuid4 can
\* draw when req names no output_id
ReqFiles ==
    {OutputFile(req.output_path, OutputId(req.output_id, [uuid |-> u]),
                req.audio_idx, req.format) : u \in UUIDs}

\* calls i and i+1 are two successive calls of one adapter (with a URL it
\* can take a file identifier from), the first from a state where the
\* destination does not exist
TwoCalls(i) ==
    /\ i \in 1..(Len(calls) - 1)
    /\ calls[i].fn = calls[i + 1].fn
    /\ HasFileId(req.url)
    /\ \A p \in ReqFiles : ~Exists(calls[i].before, p)

FirstFetched(i) ==
    /\ TwoCalls(i)
    /\ req.output_id # NoId
    /\ ~calls[i].raised
    /\ calls[i].ret.fetched
    /\ Exists(calls[i].after, ReqFile)

C2_ExistingFileShortCircuits ==
    \A i \in 1..Len(calls) :
        (/\ req.output_id # NoId
         /\ HasFileId(req.url)
         /\ Exists(calls[i].before, ReqFile)) =>
            /\ ~calls[i].raised
            /\ calls[i].ret = Tuple(ReqFile, FALSE)
            /\ calls[i].net = 0
            /\ calls[i].after = calls[i].before


\* C16: download_from_google_drive makes at most 5 download attempts and
\* stops at the first that succeeds; it waits 3^(attempt+1) seconds (and a
\* jitter below one second, left out of the waits recorded) only between a
\* failed attempt and the next; when all 5 fail it returns ("", False)
\* without raising, without a last wait and without creating the
\* destination file.
C16_FiveAttemptsThenFailure ==
    \A i \in 1..Len(calls) :
        LET c == calls[i]
        IN  c.fn = "drive" =>
                /\ c.net <= 5
                /\ c.net > 0 => c.net = (IF c.okAt < 5 THEN c.okAt + 1 ELSE 5)
                /\ c.waits = [n \in 1..(IF c.net > 0 THEN c.net - 1 ELSE 0) |->
                                <<3, 9, 27, 81>>[n]]
                /\ (c.net > 0 /\ c.okAt >= 5) =>
                        /\ ~c.raised
                        /\ c.ret = Tuple(NoPath, FALSE)
                        /\ c.after = c.before

\* all five attempts failed; and a call succeeded at its third attempt
C16_Witness ==
    /\ Len(calls) = 2
    /\ calls[1].fn = "drive" /\ calls[1].net = 5
    /\ calls[1].ret = Tuple(NoPath, FALSE)
    /\ calls[2].fn = "drive" /\ calls[2].net = 3
    /\ calls[2].waits = <<3, 9>>
    /\ calls[2].ret.fetched

\* C17: when download_from_google_drive returns (path, True) with a
\* non-empty path, the scratch file it downloaded under tmp/ does not exist
\* and the destination file exists; the other adapters leave the scratch
\* files as they were.
C17_ScratchRemovedOnSuccess ==
    \A i \in 1..Len(calls) :
        LET c == calls[i]
        IN  /\ (c.fn = "drive" /\ ~c.raised /\ c.ret.fetched
                    /\ c.ret.path # NoPath) =>
                    /\ FileId(req.url) \notin c.left
                    /\ Exists(c.after, c.ret.path)
            /\ c.fn \in {"yt", "curl"} => c.left = c.scratch

\* a fetch that succeeded after one that had left its scratch file
C17_Witness ==
    /\ Len(calls) = 2
    /\ calls[2].fn = "drive"
    /\ calls[2].scratch # {}
    /\ calls[2].ret.fetched
    /\ calls[2].left = {}

\* C19: download_from_curl makes one transfer attempt at most, and a
\* transfer that leaves no file is reported as ("", False): fetched=True is
\* returned only when the destination file exists.
C19_CurlFailureReported ==
    \A i \in 1..Len(calls) :
        LET c == calls[i]
        IN  c.fn = "curl" =>
                /\ c.net <= 1
                /\ ~c.raised
                /\ c.ret.fetched => Exists(c.after, c.ret.path)
                /\ (c.net = 1 /\ \A p \in ReqFiles : ~Exists(c.after, p)) =>
                        c.ret = Tuple(NoPath, FALSE)

\* C30: a failed fetch leaves its key unclaimed: after an adapter call that
\* returned the empty path or raised (a failure to decode or re-encode after
\* the download included), no file is at a destination that was free
\* before the call, so that a later call with the same key fetches again.
C30_FailedFetchLeavesNoFile ==
    \A i \in 1..Len(calls) :
        (calls[i].raised \/ calls[i].ret.path = NoPath) =>
            \A p \in ReqFiles :
                ~Exists(calls[i].before, p) => ~Exists(calls[i].after, p)

-----------------------------------------------------------------------------
(* utils.py: crop_audio *)

Max(a, b) == IF a >= b THEN a ELSE b
Min(a, b) == IF a <= b THEN a ELSE b

\* pydub.AudioSegment.from_file(audio_path) returns an audio segment: the
\* path is a string naming an existing audio file that pydub can decode
Decodes(files, audio_path, env) ==
    /\ audio_path.type = "str"
    /\ Exists(files, audio_path.path)
    /\ files[audio_path.path].audio
    /\ env.pydub # "nodecode"

\* step 2 of the policy: the end of the window when it is re-derived
DerivedEnd(start_ms, max_length, length) == Max(start_ms + max_length, length)

\* audio[start_ms : end_ms] of pydub: both offsets are cut at len(audio), and
\* an end before the start gives an empty segment
Slice(content, start_ms, end_ms) ==
    LET s == Min(start_ms, AudioLen(content))
        e == Max(s, Min(end_ms, AudioLen(content)))
    IN  [content EXCEPT !.lo = content.lo + s, !.hi = content.lo + e]

\* the result of crop_audio: raised, or the triple returned, with the
\* files after it and len(audio)
Cropped(raised, audio_path, start_ms, end_ms, files, length) ==
    [raised |-> raised, path |-> audio_path, start_ms |-> start_ms,
     end_ms |-> end_ms, fs |-> files, len |-> length]

\* crop_audio re-deriving the end already when the window is exactly
\* max_length long
crop_audio_strict(files, audio_path, start_ms, end_ms, output_format, max_length, need_crop, env) ==
    IF ~Decodes(files, audio_path, env)
    THEN Cropped(TRUE, audio_path, start_ms, end_ms, files, 0)
    ELSE LET audio == files[audio_path.path]
             start == IF start_ms < 0 THEN 0 ELSE start_ms
             end == IF end_ms < 0 \/ end_ms - start >= max_length
                    THEN DerivedEnd(start, max_length, AudioLen(audio))
                    ELSE end_ms
         IN  IF ~need_crop
             THEN Cropped(FALSE, audio_path, start, end, files, AudioLen(audio))
             ELSE IF env.pydub = "noexport"
             THEN Cropped(TRUE, audio_path, start, end,
                          [files EXCEPT ![audio_path.path] = Garbage(audio.src)],
                          AudioLen(audio))
             ELSE Cropped(FALSE, audio_path, start, end,
                          [files EXCEPT ![audio_path.path] = Slice(audio, start, end)],
                          AudioLen(audio))

\* crop_audio(audio_path, start_ms, end_ms, output_format, max_length,
\* need_crop)
crop_audio(files, audio_path, start_ms, end_ms, output_format, max_length, need_crop, env) ==
    IF ~Decodes(files, audio_path, env)
    THEN Cropped(TRUE, audio_path, start_ms, end_ms, files, 0)
    ELSE LET audio == files[audio_path.path]
             start == IF start_ms < 0 THEN 0 ELSE start_ms
             end == IF end_ms < 0 \/ end_ms - start > max_length
                    THEN DerivedEnd(start, max_length, AudioLen(audio))
                    ELSE end_ms
         IN  IF ~need_crop
             THEN Cropped(FALSE, audio_path, start, end, files, AudioLen(audio))
             ELSE IF env.pydub = "noexport"
             THEN Cropped(TRUE, audio_path, start, end,
                          [files EXCEPT ![audio_path.path] = Garbage(audio.src)],
                          AudioLen(audio))
             ELSE Cropped(FALSE, audio_path, start, end,
                          [files EXCEPT ![audio_path.path] = Slice(audio, start, end)],
                          AudioLen(audio))

-----------------------------------------------------------------------------
(* SpecCrop: a direct call of crop_audio on a host with one audio file *)

CropPath == OutputFile(AudioDir, "A", 1, "mp3")
ExamplePath == OutputFile(AudioDir, "C", 1, "mp3")
MissingPath == OutputFile(AudioDir, "B", 1, "mp3")

CropEnv == {[BaseEnv EXCEPT !.pydub = d] : d \in Pydub}

\* one call: its arguments, the files before it and its result
CropCall(audio_path, start_ms, end_ms, max_length, need_crop, before, c) ==
    [audio_path |-> audio_path, start_ms |-> start_ms,
     end_ms |-> end_ms, max_length |-> max_length, need_crop |-> need_crop,
     before |-> before, out |-> c]

Crop ==
    /\ crops = <<>>
    /\ \E audio_path \in {Str(CropPath), Str(MissingPath)},
          start_ms \in -1..MaxMs, end_ms \in -1..MaxMs,
          max_length \in 1..MaxWindow, need_crop \in BOOLEAN,
          env \in CropEnv :
        LET c == crop_audio(fs, audio_path, start_ms, end_ms, "mp3",
                            max_length, need_crop, env)
        IN  /\ fs' = c.fs
            /\ crops' = <<CropCall(audio_path, start_ms, end_ms,
                                   max_length, need_crop, fs, c)>>
    /\ UNCHANGED <<tmp, ffmpeg, distVars, req, calls, mainVars>>

\* a call with a window in milliseconds of the scale of the program's
\* inputs, on the one-minute file: 5 s to 20 s, with the default max_length
CropExample ==
    /\ crops = <<>>
    /\ \E need_crop \in BOOLEAN, env \in CropEnv :
        LET c == crop_audio(fs, Str(ExamplePath), 5000, 20000, "mp3",
                            15000, need_crop, env)
        IN  /\ fs' = c.fs
            /\ crops' = <<CropCall(Str(ExamplePath), 5000, 20000,
                                   15000, need_crop, fs, c)>>
    /\ UNCHANGED <<tmp, ffmpeg, distVars, req, calls, mainVars>>

InitCrop ==
    /\ \E length \in 0..MaxSrcLen :
        fs = (CropPath :> [Audio(HttpUrl) EXCEPT !.hi = length])
             @@ (ExamplePath :> [Audio(HttpUrl) EXCEPT !.hi = 60 * 1000])
    /\ tmp = {}
    /\ ffmpeg = TRUE
    /\ req \in {[url |-> HttpUrl, format |-> "mp3", output_path |-> AudioDir,
                 output_id |-> "A", audio_idx |-> 1]}
    /\ calls = <<>>
    /\ crops = <<>>
    /\ IdleMain

NextCrop == Crop \/ CropExample

SpecCrop == InitCrop /\ [][NextCrop]_vars

\* the crop_audio call returned
Returned(i) == i \in DOMAIN crops /\ ~crops[i].out.raised

\* C3, as claimed: the window every crop_audio call returns is no longer
\* than max_length.
C3_WindowWithinMaxLength ==
    \A i \in DOMAIN crops :
        Returned(i) =>
            crops[i].out.end_ms - crops[i].out.start_ms <= crops[i].max_length

\* C4, as claimed: the end every crop_audio call returns is no greater than
\* the decoded length of the source, len(audio).
C4_EndWithinSource ==
    \A i \in DOMAIN crops :
        Returned(i) => crops[i].out.end_ms <= crops[i].out.len

\* C5, as claimed: the window every crop_audio call returns satisfies
\* 0 <= start < end.
C5_StartBeforeEnd ==
    \A i \in DOMAIN crops :
        Returned(i) =>
            /\ 0 <= crops[i].out.start_ms
            /\ crops[i].out.start_ms < crops[i].out.end_ms


\* C20: crop_audio called with need_crop=False returns the start_ms and
\* end_ms it was given, whatever they are, does not decode the file (so it
\* cannot fail on a file that is missing or not audio) and leaves the file
\* at audio_path as it was.
C20_NoCropReturnsBoundsUnchanged ==
    \A i \in DOMAIN crops :
        ~crops[i].need_crop =>
            /\ ~crops[i].out.raised
            /\ crops[i].out.start_ms = crops[i].start_ms
            /\ crops[i].out.end_ms = crops[i].end_ms
            /\ crops[i].out.fs = crops[i].before

-----------------------------------------------------------------------------
(* process_audio_json.py: timestamp_to_ms.  A time string is the sequence   *)
(* of its characters; an absent one (None) has none |-> TRUE.              *)

Absent == [none |-> TRUE, text |-> <<>>]
Text(chars) == [none |-> FALSE, text |-> chars]

Digits == {"0", "1", "2", "3", "4", "5", "6", "7", "8", "9"}

DigitValue(c) ==
    CASE c = "0" -> 0 [] c = "1" -> 1 [] c = "2" -> 2 [] c = "3" -> 3
      [] c = "4" -> 4 [] c = "5" -> 5 [] c = "6" -> 6 [] c = "7" -> 7
      [] c = "8" -> 8 [] OTHER -> 9

\* str.strip()
RECURSIVE LStrip(_)
LStrip(chars) ==
    IF chars # <<>> /\ Head(chars) = " " THEN LStrip(Tail(chars)) ELSE chars

RECURSIVE RStrip(_)
RStrip(chars) ==
    IF chars # <<>> /\ chars[Len(chars)] = " "
    THEN RStrip(SubSeq(chars, 1, Len(chars) - 1))
    ELSE chars

Strip(chars) == RStrip(LStrip(chars))

\* str.split(sep)
RECURSIVE Split(_, _)
Split(chars, sep) ==
    IF \A i \in 1..Len(chars) : chars[i] # sep
    THEN <<chars>>
    ELSE LET i == CHOOSE k \in 1..Len(chars) :
                      /\ chars[k] = sep
                      /\ \A j \in 1..(k - 1) : chars[j] # sep
         IN  <<SubSeq(chars, 1, i - 1)>> \o Split(SubSeq(chars, i + 1, Len(chars)), sep)

\* the value of a string of digits
RECURSIVE Decimal(_)
Decimal(chars) ==
    IF chars = <<>> THEN 0
    ELSE 10 * Decimal(SubSeq(chars, 1, Len(chars) - 1)) + DigitValue(chars[Len(chars)])

\* int(part): blanks around, an optional sign, then digits; anything else
\* is a ValueError (ok |-> FALSE)
ParseInt(part) ==
    LET t == Strip(part)
        signed == t # <<>> /\ Head(t) \in {"+", "-"}
        body == IF signed THEN Tail(t) ELSE t
        ok == body # <<>> /\ \A i \in 1..Len(body) : body[i] \in Digits
    IN  [ok |-> ok,
         value |-> IF ~ok THEN 0
                   ELSE IF signed /\ Head(t) = "-" THEN 0 - Decimal(body)
                   ELSE Decimal(body)]

\* the result of timestamp_to_ms: raised, or the milliseconds returned
Ms(raised, ms) == [raised |-> raised, ms |-> ms]

\* timestamp_to_ms returning the seconds instead of the milliseconds
TimestampToSeconds(timestamp) ==
    IF timestamp.none \/ Strip(timestamp.text) = <<>>
    THEN Ms(FALSE, -1)
    ELSE LET strs == Split(timestamp.text, ":")
             parts == [i \in 1..Len(strs) |-> ParseInt(strs[i])]
         IN  IF \E i \in 1..Len(parts) : ~parts[i].ok
             THEN Ms(TRUE, -1)
             ELSE IF Len(parts) = 2
             THEN Ms(FALSE, 0 * 3600 + parts[1].value * 60 + parts[2].value)
             ELSE IF Len(parts) = 3
             THEN Ms(FALSE, parts[1].value * 3600 + parts[2].value * 60
                            + parts[3].value)
             ELSE Ms(FALSE, -1)

timestamp_to_ms(timestamp) ==
    IF timestamp.none \/ Strip(timestamp.text) = <<>>
    THEN Ms(FALSE, -1)
    ELSE LET strs == Split(timestamp.text, ":")
             parts == [i \in 1..Len(strs) |-> ParseInt(strs[i])]
         IN  IF \E i \in 1..Len(parts) : ~parts[i].ok
             THEN Ms(TRUE, -1)
             ELSE IF Len(parts) = 2
             THEN Ms(FALSE, (0 * 3600 + parts[1].value * 60 + parts[2].value) * 1000)
             ELSE IF Len(parts) = 3
             THEN Ms(FALSE, (parts[1].value * 3600 + parts[2].value * 60
                             + parts[3].value) * 1000)
             ELSE Ms(FALSE, -1)

-----------------------------------------------------------------------------
(* SpecStamp: timestamp_to_ms called once with a time string.  The function *)
(* of process_audio.py (lines 26-40) has the same text.                     *)

\* the characters of the time strings enumerated
StampChars == {"0", "1", "2", ":", " ", "-"}

\* time strings named by the specification and the documentation
StampExamples ==
    {<<"0", "1", ":", "0", "2", ":", "0", "3">>, <<"0", "2", ":", "0", "5">>,
     <<"1", ":", "2", ":", "3", ":", "4">>, <<"a", "b", ":", "c", "d">>,
     <<"1", ":", "2", ".", "5">>, <<"5", "9", ":", "5", "9">>}

\* the values a start or end column can have: None, or a string
TimeStrings ==
    {Absent}
    \cup {Text(chars) : chars \in StampExamples}
    \cup {Text(chars) : chars \in UNION {[1..n -> StampChars] : n \in 0..MaxStampLen}}

\* one call and what it returned
StampCall(timestamp, result) ==
    [fn |-> "timestamp_to_ms", timestamp |-> timestamp, out |-> result]

Normalize ==
    /\ calls = <<>>
    /\ calls' = <<StampCall(req.timestamp, timestamp_to_ms(req.timestamp))>>
    /\ UNCHANGED <<fs, tmp, ffmpeg, distVars, req, crops, mainVars>>

InitStamp ==
    /\ fs = EmptyFs
    /\ tmp = {}
    /\ ffmpeg = TRUE
    /\ req \in {[timestamp |-> t] : t \in TimeStrings}
    /\ calls = <<>>
    /\ crops = <<>>
    /\ IdleMain

NextStamp == Normalize

SpecStamp == InitStamp /\ [][NextStamp]_vars

\* the string is absent or blank
Blank(timestamp) ==
    timestamp.none \/ \A i \in 1..Len(timestamp.text) : timestamp.text[i] = " "

\* the positions of the colons of a string
Colons(chars) == {i \in 1..Len(chars) : chars[i] = ":"}

\* the number written by the digits at the positions a..b
RECURSIVE Number(_, _, _)
Number(chars, a, b) ==
    IF a > b THEN 0
    ELSE DigitValue(chars[a]) * Pow(10, b - a) + Number(chars, a + 1, b)

\* the non-empty runs of digits between the colons, for a string made of
\* digits and n - 1 colons: the numbers they write, in order
Components(chars) ==
    LET cut == [k \in 0..(Cardinality(Colons(chars)) + 1) |->
                   IF k = 0 THEN 0
                   ELSE IF k = Cardinality(Colons(chars)) + 1 THEN Len(chars) + 1
                   ELSE CHOOSE i \in Colons(chars) :
                            Cardinality({j \in Colons(chars) : j < i}) = k - 1]
    IN  [k \in 1..(Cardinality(Colons(chars)) + 1) |->
            [digits |-> cut[k] - cut[k - 1] - 1,
             value |-> Number(chars, cut[k - 1] + 1, cut[k] - 1)]]

\* n components, each a non-empty string of digits
WellFormed(timestamp, n) ==
    /\ ~timestamp.none
    /\ \A i \in 1..Len(timestamp.text) : timestamp.text[i] \in Digits \cup {":"}
    /\ Cardinality(Colons(timestamp.text)) = n - 1
    /\ \A k \in 1..n : Components(timestamp.text)[k].digits > 0

\* C11: timestamp_to_ms returns -1 for an absent or blank input,
\* (60*MM + SS)*1000 for MM:SS and (3600*HH + 60*MM + SS)*1000 for HH:MM:SS
\* with components that are non-negative integers, never a negative number
\* for these; "01:02:03" gives 3723000, "02:05" gives 125000, "" gives -1.
C11_Milliseconds ==
    \A i \in 1..Len(calls) :
        LET t == calls[i].timestamp
            r == calls[i].out
            c == Components(t.text)
        IN  /\ Blank(t) => r = Ms(FALSE, -1)
            /\ WellFormed(t, 2) =>
                    /\ r = Ms(FALSE, (60 * c[1].value + c[2].value) * 1000)
                    /\ r.ms >= 0
            /\ WellFormed(t, 3) =>
                    /\ r = Ms(FALSE, (3600 * c[1].value + 60 * c[2].value
                                      + c[3].value) * 1000)
                    /\ r.ms >= 0
            /\ t = Text(<<"0", "1", ":", "0", "2", ":", "0", "3">>) =>
                    r = Ms(FALSE, 3723000)
            /\ t = Text(<<"0", "2", ":", "0", "5">>) => r = Ms(FALSE, 125000)
            /\ t = Text(<<>>) => r = Ms(FALSE, -1)

\* "01:02:03" has been converted
C11_Witness ==
    /\ calls # <<>>
    /\ calls[1].timestamp = Text(<<"0", "1", ":", "0", "2", ":", "0", "3">>)
    /\ calls[1].out = Ms(FALSE, 3723000)

\* C12: for a non-blank string of integer components whose number is
\* neither 2 nor 3 the call does not raise, and its outcome differs from the
\* -1 returned for an absent or blank input.
C12_ExplicitFormatError ==
    \A i \in 1..Len(calls) :
        LET t == calls[i].timestamp
            n == Cardinality(Colons(t.text)) + 1
        IN  (~Blank(t) /\ n \notin {2, 3} /\ WellFormed(t, n)) =>
                /\ ~calls[i].out.raised
                /\ calls[i].out # timestamp_to_ms(Text(<<>>))

-----------------------------------------------------------------------------
(* process_audio_json.py: process_audio_download and main *)

MAX_AUDIO_LENGTH == 30

\* the arguments of main: --format and --audio_dir at their defaults
MainArgs == [format |-> "mp3", audio_dir |-> AudioDir]

LinkKey(i) == <<"link_1", "link_2", "link_3">>[i]
StartKey(i) == <<"start_1", "start_2", "start_3">>[i]
EndKey(i) == <<"end_1", "end_2", "end_3">>[i]

\* the keys main pops from the row before it writes it
Popped ==
    {"link_1", "link_2", "link_3", "start_1", "start_2", "start_3",
     "end_1", "end_2", "end_3"}

\* the pieces of a URL in which the marker occurs
Marked(marker) ==
    CASE marker = "drive" -> {"drive.google.com", "drive"}
      [] marker = "youtu" -> {"youtu.be", "youtube.com"}
      [] OTHER -> {}

\* marker in link
In(marker, link) ==
    \/ \E i \in 1..Len(link.segs) : link.segs[i] \in Marked(marker)
    \/ \E i \in 1..Len(link.amp) : link.amp[i] \in Marked(marker)

\* link.split("&")[0]
BeforeAmp(link) == [link EXCEPT !.amp = <<>>]

\* f"{idx:0>8d}"
UniqueId(i) == <<"00000000", "00000001", "00000002", "00000003">>[i + 1]

\* the if / elif / else chain on the link, with "youtu" tested first
ClassifyVideoFirst(link) ==
    IF In("youtu", link) THEN "yt"
    ELSE IF In("drive", link) THEN "drive"
    ELSE "curl"

\* the if / elif / else chain on the link: the adapter it selects
Classify(link) ==
    IF In("drive", link) THEN "drive"
    ELSE IF In("youtu", link) THEN "yt"
    ELSE "curl"

\* the adapter the link selects, called with the link
Dispatch(link, args, unique_id, i, files, scratch, env) ==
    CASE Classify(link) = "drive" ->
            download_from_google_drive(link, args.format, args.audio_dir,
                                       unique_id, i, files, scratch, env)
      [] Classify(link) = "yt" ->
            download_from_yt(BeforeAmp(link), args.format, args.audio_dir,
                             unique_id, i, files, scratch, env)
      [] OTHER ->
            download_from_curl(link, args.format, args.audio_dir,
                               unique_id, i, files, scratch, env)

\* the adapter's outcome, or None for an exception of the adapter; with
\* the link and the index the adapter was called with
process_audio_download(row, args, i, files, scratch, env) ==
    LET o == Dispatch(row[LinkKey(i)], args, row.unique_id, i, files, scratch, env)
        called == [link |-> row[LinkKey(i)], idx |-> i,
                   fn |-> Classify(row[LinkKey(i)])]
    IN  IF o.raised
        THEN called @@ [o EXCEPT !.ret = None, !.raised = FALSE]
        ELSE called @@ o

\* def process_audio_download(row, args, audio_idx=1)
DefaultAudioIdx == 1

\* audio_path = process_audio_download(row, args)
Download(row, args, files, scratch, env) ==
    process_audio_download(row, args, DefaultAudioIdx, files, scratch, env)

\* the time strings of the three references of a row
Stamps ==
    {[start |-> <<Absent, Absent, Absent>>, end |-> <<Absent, Absent, Absent>>],
     [start |-> <<Text(<<"0", ":", "5">>), Text(<<"2", ":", "5">>),
                  Text(<<"1", ":", "2", ":", "3", ":", "4">>)>>,
      end |-> <<Text(<<"0", ":", "0", ":", "2", "0">>), Text(<<>>), Absent>>],
     [start |-> <<Text(<<"0", ":", "5">>), Text(<<"a", ":", "b">>),
                  Text(<<"0", ":", "5">>)>>,
      end |-> <<Text(<<"0", ":", "2", "0">>), Text(<<"0", ":", "2", "0">>),
                Text(<<"1", ":", "2", ".", "5">>)>>]}

Links == {NoLink, DriveUrl, YtUrl, HttpUrl}

\* the link_1, link_2, link_3 columns of a row: no reference, one, two with
\* a gap before them, two, three
References ==
    {<<NoLink, NoLink, NoLink>>, <<DriveUrl, NoLink, NoLink>>,
     <<NoLink, DriveUrl, NoLink>>, <<YtUrl, HttpUrl, NoLink>>,
     <<DriveUrl, YtUrl, NoLink>>, <<HttpUrl, YtUrl, DriveUrl>>}

\* the rows csv.DictReader can give
Rows ==
    {[link_1 |-> l[1], link_2 |-> l[2], link_3 |-> l[3],
      start_1 |-> t.start[1], start_2 |-> t.start[2], start_3 |-> t.start[3],
      end_1 |-> t.end[1], end_2 |-> t.end[2], end_3 |-> t.end[3],
      question |-> "q"] : l \in References, t \in Stamps}

\* row of the outer loop, with row["unique_id"] set
Row == [unique_id |-> UniqueId(idx)] @@ data[idx + 1]

\* one entry of the log: a "fetch" (an adapter called with link and index
\* i, what it returned, whether its destination existed before, the
\* transfers it started), a "crop" (crop_audio called with the path ret,
\* and whether it raised) or a "write" (the record of the row appended)
Logged(op, link, i, ret, existed, net, raised) ==
    [op |-> op, run |-> run, entry |-> idx, ref |-> ref, link |-> link,
     idx |-> i, ret |-> ret, existed |-> existed, net |-> net,
     raised |-> raised]

\* the descriptor appended for a reference
Descriptor(link, audio_path, start_ms, end_ms) ==
    [link |-> link, audio_path |-> audio_path, start_ms |-> start_ms,
     end_ms |-> end_ms]

\* row["audio"] = audio_data, and the indexed keys popped
EnrichedKeepsIndexed(row, audio) == [audio |-> audio] @@ row

\* row["audio"] = audio_data, then the nine row.pop(key, None)

Enriched(row, audio) ==
    LET r == [audio |-> audio] @@ row
    IN  [k \in (DOMAIN r) \ Popped |-> r[k]]

\* json.dump(row, out_f); out_f.write("\n"), the file opened in append mode
WriteRecord(file, record) == Append(file, record)

\* what the host and the network can do during one adapter call of main;
\* of gdown, that its first attempt succeeds or that none does
MainEnv ==
    {e \in DriveEnv \cup YtEnv \cup CurlEnv :
        e.uuid = "U1" /\ e.okAt \in {0, Attempts}}

\* for idx, row in enumerate(data): row["unique_id"] = ...; audio_data = [].
\* The input file does not change and nothing looks at a row before the loop
\* reaches it, so a row is drawn when the first run reaches it and read
\* back from data by the later runs.
StartRow ==
    /\ pc = "rows"
    /\ idx < NumEntries
    /\ IF idx + 1 > Len(data)
       THEN \E r \in Rows : data' = Append(data, r)
       ELSE data' = data
    /\ ref' = 1
    /\ audio_data' = <<>>
    /\ pc' = "refs"
    /\ UNCHANGED <<success_count, fs, tmp, ffmpeg, distVars, req, calls, crops, run, idx, out, log>>

\* if not row.get(f"link_{audio_idx}"): continue
SkipReference ==
    /\ pc = "refs"
    /\ ref <= 3
    /\ Row[LinkKey(ref)] = NoLink
    /\ ref' = ref + 1
    /\ UNCHANGED <<success_count, fs, tmp, ffmpeg, distVars, req, calls, crops, data, run, pc, idx,
                   audio_data, out, log>>

\* one iteration of the inner loop for a reference that is present: the
\* download, the two timestamps, and for a truthy audio_path the crop and
\* the descriptor; an exception of timestamp_to_ms or crop_audio ends main
ProcessReference ==
    /\ pc = "refs"
    /\ ref <= 3
    /\ Row[LinkKey(ref)] # NoLink
    /\ LET row == Row
           start_ms == timestamp_to_ms(row[StartKey(ref)])
           end_ms == timestamp_to_ms(row[EndKey(ref)])
       IN  \E env \in MainEnv :
            LET o == Download(row, MainArgs, fs, tmp, env)
                audio_path == o.ret
                dest == OutputFile(MainArgs.audio_dir, row.unique_id, o.idx,
                                   MainArgs.format)
                fetch == Logged("fetch", o.link, o.idx, o.ret,
                                Exists(fs, dest), o.net, FALSE)
            IN  /\ tmp' = o.tmp
                /\ IF start_ms.raised \/ end_ms.raised
                   THEN /\ pc' = "crashed"
                        /\ fs' = o.fs
                        /\ log' = Append(log, fetch)
                        /\ UNCHANGED <<ref, audio_data>>
                   ELSE IF ~Truthy(audio_path)
                   THEN /\ ref' = ref + 1
                        /\ fs' = o.fs
                        /\ log' = Append(log, fetch)
                        /\ UNCHANGED <<pc, audio_data>>
                   ELSE \E cenv \in CropEnv :
                        LET c == crop_audio(o.fs, audio_path, start_ms.ms,
                                            end_ms.ms, MainArgs.format,
                                            MAX_AUDIO_LENGTH * 1000, TRUE, cenv)
                            crop == Logged("crop", row[LinkKey(ref)], ref,
                                           audio_path, FALSE, 0, c.raised)
                        IN  /\ fs' = c.fs
                            /\ log' = log \o <<fetch, crop>>
                            /\ IF c.raised
                               THEN /\ pc' = "crashed"
                                    /\ UNCHANGED <<ref, audio_data>>
                               ELSE /\ audio_data' =
                                          Append(audio_data,
                                                 Descriptor(row[LinkKey(ref)],
                                                            c.path, c.start_ms,
                                                            c.end_ms))
                                    /\ ref' = ref + 1
                                    /\ UNCHANGED pc
    /\ UNCHANGED <<success_count, ffmpeg, distVars, req, calls, crops, data, run, idx, out>>

\* row["audio"] = audio_data, the indexed keys popped, the row appended to
\* the output file
PersistEntry ==
    /\ pc = "refs"
    /\ ref = 4
    /\ out' = WriteRecord(out, Enriched(Row, audio_data))
    /\ log' = Append(log, Logged("write", NoLink, 0, None, FALSE, 0, FALSE))
    /\ idx' = idx + 1
    /\ pc' = "rows"
    /\ UNCHANGED <<success_count, fs, tmp, ffmpeg, distVars, req, calls, crops, data, run, ref, audio_data>>

\* the outer loop ends and main returns
Finish ==
    /\ pc = "rows"
    /\ idx = NumEntries
    /\ pc' = "done"
    /\ UNCHANGED <<success_count, fs, tmp, ffmpeg, distVars, req, calls, crops, data, run, idx, ref,
                   audio_data, out, log>>

\* after a run that reached its end, main is run again with the same input
\* file, audio directory and output file
Rerun ==
    /\ pc = "done"
    /\ run < MaxRuns
    /\ run' = run + 1
    /\ pc' = "rows"
    /\ idx' = 0
    /\ ref' = 0
    /\ audio_data' = <<>>
    /\ UNCHANGED <<success_count, fs, tmp, ffmpeg, distVars, req, calls, crops, data, out, log>>

Init ==
    /\ fs = EmptyFs
    /\ tmp = {}
    /\ ffmpeg \in BOOLEAN
    /\ req \in {[url |-> NoLink, format |-> MainArgs.format,
                 output_path |-> MainArgs.audio_dir, output_id |-> NoId,
                 audio_idx |-> NoIdx]}
    /\ calls = <<>>
    /\ crops = <<>>
    /\ data = <<>>
    /\ run = 1
    /\ pc = "rows"
    /\ idx = 0
    /\ ref = 0
    /\ audio_data = <<>>
    /\ out = <<>>
    /\ log = <<>>
    /\ success_count = 0
    /\ IdleDist

Next ==
    \/ StartRow
    \/ SkipReference
    \/ ProcessReference
    \/ PersistEntry
    \/ Finish
    \/ Rerun

Spec == Init /\ [][Next]_vars


-----------------------------------------------------------------------------
(* The claims about main.  The log holds, for every reference main reached, *)
(* the adapter call and the crop_audio call it made; out is the output     *)
(* file.                                                                   *)

\* the adapter's failure result ("", False), or None for an adapter that raised
FetchFailed(ret) == ret.type = "NoneType" \/ ret.path = NoPath

\* the entries of the log that operation op left for reference i of entry e
\* in run r
Entries(op, r, e, i) ==
    {j \in 1..Len(log) : /\ log[j].op = op
                         /\ log[j].run = r
                         /\ log[j].entry = e
                         /\ log[j].ref = i}

\* the references of entry e whose fetch succeeded in run r, in order
Fetched(r, e) ==
    SelectSeq(<<1, 2, 3>>,
              LAMBDA i : \E j \in Entries("fetch", r, e, i) :
                            ~FetchFailed(log[j].ret))

\* the run and the entry of the k-th record of the output file, every run
\* before the last having written all its records
RunOf(k) == ((k - 1) \div NumEntries) + 1
EntryOf(k) == (k - 1) % NumEntries

\* C6: the audio list written for an entry holds, in reference order, one
\* descriptor for each present reference whose fetch succeeded and none for
\* a reference whose fetch failed; a reference whose fetch returned the
\* failure result is not cropped and the run goes on after it.
C6_AudioListOmitsFailedFetches ==
    /\ \A k \in 1..Len(out) :
        LET refs == Fetched(RunOf(k), EntryOf(k))
        IN  /\ Len(out[k].audio) = Len(refs)
            /\ \A n \in 1..Len(refs) :
                out[k].audio[n].link = data[EntryOf(k) + 1][LinkKey(refs[n])]
    /\ \A j \in 1..Len(log) :
        (log[j].op = "fetch" /\ FetchFailed(log[j].ret)) =>
            /\ Entries("crop", log[j].run, log[j].entry, log[j].ref) = {}
            /\ ~(/\ pc = "crashed"
                 /\ run = log[j].run
                 /\ idx = log[j].entry
                 /\ ref = log[j].ref)

\* C7: no failure of a single reference terminates the run: the run never
\* ends on an exception, and a run that has ended has persisted all its
\* entries.
C7_NoFailureTerminatesRun ==
    /\ pc # "crashed"
    /\ pc = "done" => Len(out) = run * NumEntries

\* C8: for every present reference i of an entry the adapter is selected
\* from and called with link_i and audio index i, so that the references of
\* one entry are stored at the distinct paths {unique_id}_{i}.{format}.
C8_OwnLinkAndIndex ==
    \A j \in 1..Len(log) :
        log[j].op = "fetch" =>
            /\ log[j].link = data[log[j].entry + 1][LinkKey(log[j].ref)]
            /\ log[j].idx = log[j].ref

\* C9: a second run after a completed run starts no transfer for a
\* reference whose destination file exists, does not crop a file it did
\* not fetch, and ends with the same audio list recorded for every entry
\* as the first run.
C9_RerunSafe ==
    /\ \A j \in 1..Len(log) :
        /\ (log[j].op = "fetch" /\ log[j].run > 1 /\ log[j].existed) =>
                log[j].net = 0
        /\ (log[j].op = "crop" /\ log[j].run > 1) => log[j].ret.fetched
    /\ (run > 1 /\ pc \in {"done", "crashed"}) =>
        \A k \in 1..NumEntries :
            /\ Len(out) >= (run - 1) * NumEntries + k
            /\ out[(run - 1) * NumEntries + k].audio = out[k].audio

\* C10: in a run started with an empty output file the output receives one
\* record for every input entry, in input order; the record of entry k is
\* appended after every reference of entry k and before any reference of
\* entry k + 1; so whenever the run stops, the output holds the records
\* of the entries before the one in progress.
C10_OneRecordPerEntryInOrder ==
    run = 1 =>
        /\ Len(out) = idx
        /\ \A k \in 1..Len(out) :
            out[k] = Enriched([unique_id |-> UniqueId(k - 1)] @@ data[k],
                              out[k].audio)
        /\ \A i, j \in 1..Len(log) :
            i < j => /\ log[i].entry <= log[j].entry
                     /\ log[i].op = "write" => log[i].entry < log[j].entry
        /\ pc \in {"done", "crashed"} => Len(out) = NumEntries

\* a time string that is neither absent, blank, MM:SS nor HH:MM:SS
Malformed(timestamp) ==
    /\ ~Blank(timestamp)
    /\ ~WellFormed(timestamp, 2)
    /\ ~WellFormed(timestamp, 3)

\* main has stopped on an exception raised while it converted the time
\* strings of the reference: after the adapter call, before any crop
StoppedAtTimestamp ==
    /\ pc = "crashed"
    /\ Entries("fetch", run, idx, ref) # {}
    /\ Entries("crop", run, idx, ref) = {}

\* C13: a malformed time string (wrong number of components, or components
\* that are not integers) is taken as unspecified and is never fatal: main
\* does not stop at the conversion of the time strings of a reference.
C13_MalformedNeverFatal ==
    ~(/\ StoppedAtTimestamp
      /\ \/ Malformed(Row[StartKey(ref)])
         \/ Malformed(Row[EndKey(ref)]))

\* the part of C10 that main keeps when it stops on an exception: the
\* records of the entries before the one in progress, in input order, each
\* appended after its references and before the next entry's
PrefixWritten ==
    run = 1 =>
        /\ Len(out) = idx
        /\ \A k \in 1..Len(out) :
            out[k] = Enriched([unique_id |-> UniqueId(k - 1)] @@ data[k],
                              out[k].audio)
        /\ \A i, j \in 1..Len(log) :
            i < j => /\ log[i].entry <= log[j].entry
                     /\ log[i].op = "write" => log[i].entry < log[j].entry
        /\ pc = "done" => Len(out) = NumEntries


\* C21: every record main writes has a field audio that is a list of at
\* most 3 descriptors, each with exactly the keys link, audio_path,
\* start_ms and end_ms; it has none of the fields link_i, start_i, end_i;
\* the other fields of the input row are in it unchanged.  The same holds
\* of the descriptors collected for the row in progress.
C21_RecordShape ==
    /\ \A k \in 1..Len(out) :
        LET record == out[k]
            row == data[EntryOf(k) + 1]
        IN  /\ "audio" \in DOMAIN record
            /\ Len(record.audio) <= 3
            /\ \A n \in 1..Len(record.audio) :
                DOMAIN record.audio[n] =
                    {"link", "audio_path", "start_ms", "end_ms"}
            /\ (DOMAIN record) \cap Popped = {}
            /\ \A f \in (DOMAIN row) \ Popped :
                f \in DOMAIN record /\ record[f] = row[f]
    /\ Len(audio_data) <= 3
    /\ \A n \in 1..Len(audio_data) :
        DOMAIN audio_data[n] = {"link", "audio_path", "start_ms", "end_ms"}

\* the record of an entry with two references has been written (an entry
\* whose first reference is fetched never gets that far: crop_audio raises)
C21_Witness ==
    /\ Len(out) >= 1
    /\ \A i \in 1..2 : data[1][LinkKey(i)] # NoLink
    /\ out[1].question = data[1].question
    /\ out[1].unique_id = UniqueId(0)

\* C26: crop_audio is called for a reference only after its fetch ended
\* with a non-empty local path; after a fetch that returned the failure
\* result or raised, crop_audio is not called and main goes on to the next
\* reference.
C26_CropOnlyAfterLocalPath ==
    /\ \A j \in 1..Len(log) :
        log[j].op = "crop" => log[j].ret.path # NoPath
    /\ \A j \in 1..Len(log) :
        (log[j].op = "fetch" /\ log[j].run = run /\ log[j].entry = idx
            /\ FetchFailed(log[j].ret) /\ pc = "refs") => ref > log[j].ref

-----------------------------------------------------------------------------
(* SpecEntry: the three entry points that select an adapter from the link  *)
(* of a row: resample.py (its whole loop), process_audio.py (main) and the *)
(* helper process_audio_download of process_audio_json.py called for       *)
(* successive rows.  req.program is the entry point run; log holds the     *)
(* selections and adapter calls made.                                      *)

Programs == {"resample", "csv", "json"}

\* a Drive link whose path holds the video-host marker, and a YouTube link
\* with a parameter that holds the cloud-drive marker
DriveYtUrl == [segs |-> <<"drive.google.com", "youtu.be", "view">>, amp |-> <<>>]
YtDriveUrl == [segs |-> <<"youtube.com", "watch">>, amp |-> <<"drive">>]

\* the links of the rows
EntryLinks == {DriveUrl, YtUrl, HttpUrl, DriveYtUrl, YtDriveUrl}

\* process_audio.py: MAX_AUDIO_LENGTH
CSV_MAX_AUDIO_LENGTH == 15

\* resample.py: output_path = "raw"
RawDir == "raw"

\* row['audioPath'] of resample.py: {dir}/{id}_{idx}.{ext}, or a name
\* without "_"
AudioPaths ==
    {[dir |-> "processed", id |-> "A", idx |-> 1, ext |-> "mp3"],
     [dir |-> "processed", id |-> "A", idx |-> NoIdx, ext |-> "mp3"]}

\* the start and end columns of a row of process_audio.py
CsvStamps ==
    {[start |-> Absent, end |-> Absent],
     [start |-> Text(<<"0", ":", "5">>), end |-> Text(<<"0", ":", "2", "0">>)],
     [start |-> Text(<<"a", ":", "b">>), end |-> Text(<<"0", ":", "2", "0">>)]}

\* the rows an entry point can read
EntryRows(program) ==
    CASE program = "resample" ->
            {[link |-> l, audioPath |-> a] : l \in EntryLinks, a \in AudioPaths}
      [] program = "csv" ->
            {[link |-> l, unique_id |-> u, start |-> t.start, end |-> t.end] :
                l \in EntryLinks, u \in UUIDs, t \in CsvStamps}
      [] OTHER ->
            {[link_1 |-> l, unique_id |-> "00000000"] : l \in EntryLinks}

\* resample.py: the if / elif / else chain on row['link']
ClassifyResample(link) ==
    IF In("drive", link) THEN "drive"
    ELSE IF In("youtu", link) THEN "yt"
    ELSE "curl"

\* process_audio.py: the if / elif / else chain on row["link"]
ClassifyCsv(link) ==
    IF In("drive", link) THEN "drive"
    ELSE IF In("youtu", link) THEN "yt"
    ELSE "unsupported"

\* process_audio.py: process_audio_download(row, args); nothing is called
\* for an unsupported link, and None returned
csv_process_audio_download(row, args, files, scratch, env) ==
    CASE ClassifyCsv(row.link) = "drive" ->
            download_from_google_drive(row.link, args.format, args.audio_dir,
                                       row.unique_id, NoIdx, files, scratch, env)
      [] ClassifyCsv(row.link) = "yt" ->
            download_from_yt(BeforeAmp(row.link), args.format, args.audio_dir,
                             row.unique_id, NoIdx, files, scratch, env)
      [] OTHER -> Outcome(None, FALSE, files, scratch, 0, <<>>)

\* resample.py: the adapter call of one row, format at its default
resample_download(row, files, scratch, env) ==
    CASE ClassifyResample(row.link) = "drive" ->
            download_from_google_drive(row.link, "mp3", RawDir, row.audioPath.id,
                                       row.audioPath.idx, files, scratch, env)
      [] ClassifyResample(row.link) = "yt" ->
            download_from_yt(BeforeAmp(row.link), "mp3", RawDir, row.audioPath.id,
                             row.audioPath.idx, files, scratch, env)
      [] OTHER ->
            download_from_curl(row.link, "mp3", RawDir, row.audioPath.id,
                               row.audioPath.idx, files, scratch, env)

\* one entry of the log: the adapter fn selected for the link of row idx,
\* what the call returned or that it raised, the transfers it started
Selected(link, fn, o) ==
    [program |-> req.program, row |-> idx, link |-> link, fn |-> fn,
     ret |-> o.ret, raised |-> o.raised, net |-> o.net]

\* the row the loop is at: read from the input when the loop reaches it
\* for the first time
ReadRow(row) ==
    /\ row \in EntryRows(req.program)
    /\ data' = Append(data, row)

\* resample.py: one iteration of `for row in tqdm(data)`
ResampleRow ==
    /\ pc = "resample"
    /\ idx < NumEntries
    /\ \E row \in EntryRows("resample"), env \in MainEnv :
        /\ ReadRow(row)
        /\ IF row.audioPath.idx = NoIdx
           THEN \* save_name.split("_")[1]: IndexError
                /\ pc' = "crashed"
                /\ UNCHANGED <<fs, tmp, log, idx, success_count>>
           ELSE LET o == resample_download(row, fs, tmp, env)
                IN  /\ fs' = o.fs
                    /\ tmp' = o.tmp
                    /\ log' = Append(log, Selected(row.link,
                                         ClassifyResample(row.link), o))
                    /\ IF o.raised
                       THEN /\ pc' = "crashed"
                            /\ UNCHANGED <<idx, success_count>>
                       ELSE /\ idx' = idx + 1
                            /\ success_count' =
                                  IF o.ret.path = NoPath THEN success_count
                                  ELSE success_count + 1
                            /\ UNCHANGED pc
    /\ UNCHANGED <<ffmpeg, distVars, req, calls, crops, run, ref, audio_data, out>>

\* resample.py: the two lines printed after the loop
ResampleSummary ==
    /\ pc = "resample"
    /\ idx = NumEntries
    /\ out' = <<[downloaded |-> success_count, processed |-> Len(data)]>>
    /\ pc' = "done"
    /\ UNCHANGED <<fs, tmp, ffmpeg, distVars, req, calls, crops, data, run, idx, ref,
                   audio_data, log, success_count>>

\* process_audio.py: process_audio_download applied to one row by
\* df.progress_apply; the value returned becomes the row's audio_path
CsvDownload ==
    /\ pc = "csv_download"
    /\ idx < NumEntries
    /\ \E row \in EntryRows("csv"), env \in MainEnv :
        LET o == csv_process_audio_download(row, MainArgs, fs, tmp, env)
        IN  /\ ReadRow(row)
            /\ fs' = o.fs
            /\ tmp' = o.tmp
            /\ log' = Append(log, Selected(row.link, ClassifyCsv(row.link), o))
            /\ IF o.raised
               THEN /\ pc' = "crashed"
                    /\ UNCHANGED <<idx, audio_data>>
               ELSE /\ idx' = idx + 1
                    /\ audio_data' = Append(audio_data, o.ret)
                    /\ UNCHANGED pc
    /\ UNCHANGED <<ffmpeg, distVars, req, calls, crops, run, ref, out, success_count>>

\* process_audio.py: df["start_ms"] and df["end_ms"] computed for all rows
CsvTimestamps ==
    /\ pc = "csv_download"
    /\ idx = NumEntries
    /\ LET start_ms == [k \in 1..Len(data) |-> timestamp_to_ms(data[k].start)]
           end_ms == [k \in 1..Len(data) |-> timestamp_to_ms(data[k].end)]
       IN  IF \E k \in 1..Len(data) : start_ms[k].raised \/ end_ms[k].raised
           THEN /\ pc' = "crashed"
                /\ UNCHANGED <<data, idx>>
           ELSE /\ data' = [k \in 1..Len(data) |->
                              [start_ms |-> start_ms[k].ms,
                               end_ms |-> end_ms[k].ms] @@ data[k]]
                /\ idx' = 0
                /\ pc' = "csv_crop"
    /\ UNCHANGED <<fs, tmp, ffmpeg, distVars, req, calls, crops, run, ref, audio_data,
                   out, log, success_count>>

\* process_audio.py: crop_audio applied to one row by df.progress_apply;
\* after the last row the columns are dropped and the CSV file written
CsvCrop ==
    /\ pc = "csv_crop"
    /\ idx < NumEntries
    /\ \E cenv \in CropEnv :
        LET row == data[idx + 1]
            c == crop_audio(fs, audio_data[idx + 1], row.start_ms, row.end_ms,
                            MainArgs.format, CSV_MAX_AUDIO_LENGTH * 1000,
                            TRUE, cenv)
        IN  /\ fs' = c.fs
            /\ IF c.raised
               THEN /\ pc' = "crashed"
                    /\ UNCHANGED <<idx, out>>
               ELSE /\ idx' = idx + 1
                    /\ pc' = IF idx + 1 = NumEntries THEN "done" ELSE pc
                    /\ out' = Append(out, [link |-> row.link,
                                           unique_id |-> row.unique_id,
                                           audio_path |-> c.path,
                                           start_ms |-> c.start_ms,
                                           end_ms |-> c.end_ms])
    /\ UNCHANGED <<tmp, ffmpeg, distVars, req, calls, crops, data, run, ref, audio_data,
                   log, success_count>>

\* process_audio_json.py: process_audio_download(row, args) called for a
\* row; an exception of the adapter is caught in it
JsonDownload ==
    /\ pc = "json"
    /\ idx < NumEntries
    /\ \E row \in EntryRows("json"), env \in MainEnv :
        LET o == Download(row, MainArgs, fs, tmp, env)
        IN  /\ ReadRow(row)
            /\ fs' = o.fs
            /\ tmp' = o.tmp
            /\ log' = Append(log, Selected(o.link, o.fn, o))
            /\ idx' = idx + 1
            /\ pc' = IF idx + 1 = NumEntries THEN "done" ELSE pc
    /\ UNCHANGED <<ffmpeg, distVars, req, calls, crops, run, ref, audio_data, out,
                   success_count>>

InitEntry ==
    /\ fs = EmptyFs
    /\ tmp = {}
    /\ ffmpeg \in BOOLEAN
    /\ req \in {[program |-> p] : p \in Programs}
    /\ calls = <<>>
    /\ crops = <<>>
    /\ data = <<>>
    /\ run = 1
    /\ pc = CASE req.program = "resample" -> "resample"
              [] req.program = "csv" -> "csv_download"
              [] OTHER -> "json"
    /\ idx = 0
    /\ ref = 0
    /\ audio_data = <<>>
    /\ out = <<>>
    /\ log = <<>>
    /\ success_count = 0
    /\ IdleDist

NextEntry ==
    \/ ResampleRow
    \/ ResampleSummary
    \/ CsvDownload
    \/ CsvTimestamps
    \/ CsvCrop
    \/ JsonDownload

SpecEntry == InitEntry /\ [][NextEntry]_vars

\* C14: a link that contains the cloud-drive marker selects the
\* Cloud-Drive adapter whatever else it contains, and the Video-Host
\* adapter is selected only for a link without the cloud-drive marker and
\* with the video-host marker.
C14_DriveMarkerFirst ==
    \A j \in 1..Len(log) :
        /\ In("drive", log[j].link) => log[j].fn = "drive"
        /\ log[j].fn = "yt" =>
                ~In("drive", log[j].link) /\ In("youtu", log[j].link)

\* a link that holds both markers has been classified, and the entry point
\* has gone through its rows
C14_Witness ==
    /\ Len(log) = NumEntries
    /\ \E j \in 1..Len(log) :
        /\ In("drive", log[j].link)
        /\ In("youtu", log[j].link)
        /\ log[j].fn = "drive"

\* C15: the classifier is total: every link selects one of the three
\* adapters, and a link with neither marker goes to the Generic-HTTP adapter,
\* in each of the entry points.
C15_ClassifierTotal ==
    \A j \in 1..Len(log) :
        /\ log[j].fn \in {"drive", "yt", "curl"}
        /\ (~In("drive", log[j].link) /\ ~In("youtu", log[j].link)) =>
                log[j].fn = "curl"

\* C18: without ffmpeg a Video-Host fetch starts no download and the
\* failure stays with its reference: the entry point does not stop on it.
C18_MissingTranscoderConfined ==
    \A j \in 1..Len(log) :
        (log[j].fn = "yt" /\ ~ffmpeg) =>
            /\ log[j].net = 0
            /\ ~(pc = "crashed" /\ j = Len(log))


\* the references of the resample.py run whose adapter call ended as kind:
\* "fresh" (a path, fetched), "skipped" (a path, not fetched), "failed"
\* (the empty path)
Kind(ret) ==
    IF ret.path = NoPath THEN "failed"
    ELSE IF ret.fetched THEN "fresh" ELSE "skipped"

CountOf(kind) ==
    Cardinality({j \in 1..Len(log) : ~log[j].raised /\ Kind(log[j].ret) = kind})

\* the numbers the summary of resample.py prints
Reported == {out[1].downloaded, out[1].processed}

\* C23: at the end of a resample.py run the summary reports three disjoint
\* counts of references, fetched fresh in this run, skipped because already
\* present, and failed, and the three sum to the number of references
\* processed.
C23_SummaryHasThreeCounts ==
    (req.program = "resample" /\ pc = "done") =>
        /\ CountOf("fresh") + CountOf("skipped") + CountOf("failed")
                = out[1].processed
        /\ {CountOf("fresh"), CountOf("skipped"), CountOf("failed")}
                \subseteq Reported


\* the window asked of call i is within policy for the source it decoded
WithinPolicy(i) ==
    /\ 0 <= crops[i].start_ms
    /\ 0 <= crops[i].end_ms
    /\ crops[i].start_ms < crops[i].end_ms
    /\ crops[i].end_ms - crops[i].start_ms <= crops[i].max_length
    /\ crops[i].end_ms <= crops[i].out.len

\* C24: a crop_audio call that returns and whose window is already within
\* policy (0 <= start_ms, 0 <= end_ms, start_ms < end_ms, end_ms - start_ms
\* <= max_length, the boundary included, end_ms <= len(audio)) returns
\* exactly (start_ms, end_ms); the window "00:00:05" to "00:00:20" with
\* max_length 15000 comes back as 5000, 20000.  (This is crop_audio called
\* with the path of a decodable file; main of process_audio.py hands it a
\* tuple, see C7.)
C24_WindowWithinPolicyUnchanged ==
    /\ \A i \in DOMAIN crops :
        (Returned(i) /\ WithinPolicy(i)) =>
            /\ crops[i].out.start_ms = crops[i].start_ms
            /\ crops[i].out.end_ms = crops[i].end_ms
    /\ \A i \in DOMAIN crops :
        (/\ Returned(i)
         /\ crops[i].start_ms =
                timestamp_to_ms(Text(<<"0", "0", ":", "0", "0", ":", "0", "5">>)).ms
         /\ crops[i].end_ms =
                timestamp_to_ms(Text(<<"0", "0", ":", "0", "0", ":", "2", "0">>)).ms
         /\ crops[i].max_length = CSV_MAX_AUDIO_LENGTH * 1000
         /\ crops[i].out.len >= crops[i].end_ms) =>
            crops[i].out.start_ms = 5000 /\ crops[i].out.end_ms = 20000

\* the 5 s to 20 s window, exactly max_length long, has been cropped
C24_Witness ==
    /\ Returned(1)
    /\ WithinPolicy(1)
    /\ crops[1].need_crop
    /\ crops[1].end_ms - crops[1].start_ms = crops[1].max_length
    /\ crops[1].start_ms = 5000
    /\ crops[1].out.end_ms = 20000
    /\ AudioLen(crops[1].out.fs[ExamplePath]) = 15000


-----------------------------------------------------------------------------
(* SpecSample: sample_and_crop.py, the loop over the rows of the input *)

SAMPLE_MAX_AUDIO_LENGTH == 30 * 1000

\* args.audio_dir and args.output_dir
SampleAudioDir == "data/raw"
SampleOutputDir == "data/new"

\* row.get(key, default)
Get(row, key, default) == IF key \in DOMAIN row THEN row[key] ELSE default

\* the raw file of the rows, and a file that is not in args.audio_dir
SamplePath == OutputFile("processed", "A", 1, "mp3")
SampleMissing == OutputFile("processed", "B", 1, "mp3")

\* the lengths the raw file can have, in ms
SampleLengths == {0, 20000, 45000}

\* the rows of the input: startMs and endMs present or not
SampleRows ==
    LET starts == {-1, 10000, 40000}
        ends == {-1, 5000, 35000, 80000}
    IN  {[audioPath |-> SamplePath, startMs |-> a, endMs |-> b] :
            a \in starts, b \in ends}
        \cup {[audioPath |-> SamplePath, startMs |-> a] : a \in starts}
        \cup {[audioPath |-> SamplePath, endMs |-> b] : b \in ends}
        \cup {[audioPath |-> SamplePath],
              [audioPath |-> SampleMissing, startMs |-> 0, endMs |-> 5000]}

\* os.path.join(dir, row['audioPath'].split("/")[-1])
JoinBase(dir, audioPath) == [audioPath EXCEPT !.dir = dir]

\* `not args.verify_only` with the test dropped: the audio always processed
ProcessesAlways(verify_only) == TRUE

\* `if not args.verify_only:` the audio is decoded, cut and exported
Processes(verify_only) == ~verify_only

\* the end re-derived with max instead of min
SampleEndMax(start_ms, length) == Max(start_ms + SAMPLE_MAX_AUDIO_LENGTH, length)

\* end_ms = min(start_ms + MAX_AUDIO_LENGTH, len(audio))
SampleEnd(start_ms, length) == Min(start_ms + SAMPLE_MAX_AUDIO_LENGTH, length)

\* one entry of the log: the file decoded for the row, or the clip exported
\* for it with the record made of the row and the length decoded
Sampled(op, path, raised, clip, length, record) ==
    [op |-> op, row |-> idx, path |-> path, raised |-> raised, clip |-> clip,
     len |-> length, record |-> record]

\* the part of an iteration after the decoding: length is len(audio) when
\* the audio was decoded
SampleWindow(row, length) ==
    LET verify_only == req.verify_only
        start0 == Get(row, "startMs", -1)
        end0 == Get(row, "endMs", -1)
        start_ms == IF start0 < 0 THEN 0 ELSE start0
        end1 == IF Processes(verify_only) /\ end0 > length THEN length ELSE end0
        derive == end1 < 0 \/ end1 - start_ms > SAMPLE_MAX_AUDIO_LENGTH
    IN  [skip |-> derive /\ verify_only,
         start_ms |-> start_ms,
         end_ms |-> IF derive /\ ~verify_only
                    THEN SampleEnd(start_ms, length) ELSE end1]

\* one iteration of `for idx, row in enumerate(tqdm(data))`
SampleRow ==
    /\ pc = "sample"
    /\ idx < NumEntries
    /\ \E row \in SampleRows, env \in CropEnv :
        LET save_path == JoinBase(SampleAudioDir, row.audioPath)
            output_path == JoinBase(SampleOutputDir, row.audioPath)
            loads == Processes(req.verify_only)
            decoded == Decodes(fs, Str(save_path), env)
            length == IF loads /\ decoded THEN AudioLen(fs[save_path]) ELSE 0
            w == SampleWindow(row, length)
            new_row == [startMs |-> w.start_ms, endMs |-> w.end_ms] @@ row
            clip == Slice(fs[save_path], w.start_ms, w.end_ms)
            read == IF loads
                    THEN <<Sampled("decode", save_path, ~decoded,
                                   Garbage(NoLink), length, row)>>
                    ELSE <<>>
        IN  /\ data' = Append(data, row)
            /\ IF loads /\ ~decoded
               THEN \* AudioSegment.from_file raises
                    /\ pc' = "crashed"
                    /\ log' = log \o read
                    /\ UNCHANGED <<fs, idx, out>>
               ELSE IF w.skip \/ ~Processes(req.verify_only)
               THEN \* continue, or the end of the body in verify-only mode
                    /\ idx' = idx + 1
                    /\ log' = log \o read
                    /\ UNCHANGED <<fs, pc, out>>
               ELSE IF env.pydub = "noexport"
               THEN \* audio.export raises: the line is not written
                    /\ pc' = "crashed"
                    /\ fs' = (output_path :> Garbage(NoLink)) @@ fs
                    /\ log' = log \o read \o
                              <<Sampled("export", output_path, TRUE,
                                        Garbage(NoLink), length, new_row)>>
                    /\ UNCHANGED <<idx, out>>
               ELSE /\ idx' = idx + 1
                    /\ fs' = (output_path :> clip) @@ fs
                    /\ log' = log \o read \o
                              <<Sampled("export", output_path, FALSE, clip,
                                        length, new_row)>>
                    /\ out' = Append(out, new_row)
                    /\ UNCHANGED pc
    /\ UNCHANGED <<tmp, ffmpeg, distVars, req, calls, crops, run, ref, audio_data,
                   success_count>>

\* the loop ends
SampleDone ==
    /\ pc = "sample"
    /\ idx = NumEntries
    /\ pc' = "done"
    /\ UNCHANGED <<fs, tmp, ffmpeg, distVars, req, calls, crops, data, run, idx, ref,
                   audio_data, out, log, success_count>>

InitSample ==
    /\ \E length \in SampleLengths :
        fs = (JoinBase(SampleAudioDir, SamplePath)
                :> [Audio(HttpUrl) EXCEPT !.hi = length])
    /\ tmp = {}
    /\ ffmpeg = TRUE
    /\ req \in {[program |-> "sample", verify_only |-> v] : v \in BOOLEAN}
    /\ calls = <<>>
    /\ crops = <<>>
    /\ data = <<>>
    /\ run = 1
    /\ pc = "sample"
    /\ idx = 0
    /\ ref = 0
    /\ audio_data = <<>>
    /\ out = <<>>
    /\ log = <<>>
    /\ success_count = 0
    /\ IdleDist

NextSample == SampleRow \/ SampleDone

SpecSample == InitSample /\ [][NextSample]_vars

\* C22: in verify-only mode no audio file is decoded, no clip is exported
\* to args.output_dir and no record is appended to the output file,
\* whatever the rows.
C22_VerifyOnlyTouchesNothing ==
    req.verify_only =>
        /\ \A j \in 1..Len(log) : log[j].op \notin {"decode", "export"}
        /\ \A p \in DOMAIN fs : p.dir # SampleOutputDir
        /\ out = <<>>

\* a verify-only run went through all its rows, one skipped by `continue`
\* and one that reached the end of the loop body
C22_Witness ==
    /\ req.verify_only
    /\ pc = "done"
    /\ Len(data) = NumEntries
    /\ \E k \in 1..Len(data) : SampleWindow(data[k], 0).skip
    /\ \E k \in 1..Len(data) : ~SampleWindow(data[k], 0).skip

\* the exports that completed, in order
RECURSIVE Exports(_)
Exports(events) ==
    IF events = <<>> THEN <<>>
    ELSE IF Head(events).op = "export" /\ ~Head(events).raised
    THEN <<Head(events)>> \o Exports(Tail(events))
    ELSE Exports(Tail(events))

\* C25: without --verify_only every record appended to the output file has
\* startMs >= 0, endMs <= len(audio) of the source decoded for it and
\* endMs - startMs <= MAX_AUDIO_LENGTH (30000 ms), whatever startMs and
\* endMs of the row (missing ones included), and the clip exported for it
\* is the range [startMs, endMs) of the source.
C25_RecordedWindowIsTheClip ==
    ~req.verify_only =>
        /\ Len(Exports(log)) = Len(out)
        /\ \A k \in 1..Len(out) :
            LET e == Exports(log)[k]
                r == out[k]
            IN  /\ e.record = r
                /\ r.startMs >= 0
                /\ r.endMs <= e.len
                /\ r.endMs - r.startMs <= SAMPLE_MAX_AUDIO_LENGTH
                /\ AudioLen(e.clip) = Max(0, r.endMs - r.startMs)
                /\ r.endMs > r.startMs =>
                        e.clip.lo = r.startMs /\ e.clip.hi = r.endMs

\* a row without endMs and a row whose window is longer than
\* MAX_AUDIO_LENGTH have been cut and recorded
C25_Witness ==
    /\ ~req.verify_only
    /\ Len(out) = 2
    /\ "endMs" \notin DOMAIN data[1]
    /\ out[1].endMs > out[1].startMs
    /\ Get(data[2], "endMs", -1) - Get(data[2], "startMs", -1)
            > SAMPLE_MAX_AUDIO_LENGTH
    /\ out[2].endMs - out[2].startMs = SAMPLE_MAX_AUDIO_LENGTH


-----------------------------------------------------------------------------
(* SpecRace: invocations of one adapter with the same key, their steps
   interleaved: the test of os.path.exists is one step, the transfer with
   the writing of the destination another *)

Invocations == 1..MaxCalls

\* the files without the one at path
Without(files, path) == [q \in (DOMAIN files) \ {path} |-> files[q]]

\* the adapter finding every destination free
NeverSkips(files, output_file) == FALSE

\* `if os.path.exists(output_file):` the adapter returns without fetching
Skips(files, output_file) == Exists(files, output_file)

\* what follows the test in the adapter fn: the transfer, the writing of
\* output_file, the value returned
Transfer(fn, output_file, files, scratch, env) ==
    IF fn = "drive"
    THEN DriveTransfer(req.url, output_file, files, scratch, env)
    ELSE Outcome(Tuple(output_file, TRUE), FALSE,
                 CurlWrites(req.url, output_file, files, env), scratch,
                 1, <<>>)

\* one entry of the history: invocation inv made the test ("check", ret
\* being what it returns when it skips) or the transfer ("fetch"); wrote
\* tells whether the step created or rewrote the destination
Step(inv, op, ret, raised, wrote) ==
    [inv |-> inv, op |-> op, ret |-> ret, raised |-> raised, wrote |-> wrote]

\* invocation inv tests the destination
Check(inv) ==
    /\ pc[inv] = "check"
    /\ IF Skips(fs, ReqFile)
       THEN /\ pc' = [pc EXCEPT ![inv] = "done"]
            /\ log' = Append(log, Step(inv, "check", Tuple(ReqFile, FALSE),
                                       FALSE, FALSE))
       ELSE /\ pc' = [pc EXCEPT ![inv] = "fetch"]
            /\ log' = Append(log, Step(inv, "check", None, FALSE, FALSE))
    /\ UNCHANGED <<fs, tmp, ffmpeg, distVars, req, calls, crops, data, run, idx, ref,
                   audio_data, out, success_count>>

\* invocation inv, past the test, transfers and writes the destination
Fetch(inv) ==
    /\ pc[inv] = "fetch"
    /\ \E env \in (IF req.fn = "drive" THEN DriveEnv ELSE CurlEnv) :
        LET o == Transfer(req.fn, ReqFile, fs, tmp, env)
            alone == Transfer(req.fn, ReqFile, Without(fs, ReqFile), tmp, env)
        IN  /\ fs' = o.fs
            /\ tmp' = o.tmp
            /\ log' = Append(log, Step(inv, "fetch", o.ret, o.raised,
                                       Exists(alone.fs, ReqFile)))
    /\ pc' = [pc EXCEPT ![inv] = "done"]
    /\ UNCHANGED <<ffmpeg, distVars, req, calls, crops, data, run, idx, ref,
                   audio_data, out, success_count>>

InitRace ==
    /\ fs = EmptyFs
    /\ tmp = {}
    /\ ffmpeg = TRUE
    /\ req \in {[fn |-> "drive", url |-> DriveUrl, format |-> "mp3",
                  output_path |-> AudioDir, output_id |-> "A", audio_idx |-> 1],
                 [fn |-> "curl", url |-> HttpUrl, format |-> "mp3",
                  output_path |-> AudioDir, output_id |-> "A", audio_idx |-> 1]}
    /\ calls = <<>>
    /\ crops = <<>>
    /\ data = <<>>
    /\ run = 0
    /\ pc = [inv \in Invocations |-> "check"]
    /\ idx = 0
    /\ ref = 0
    /\ audio_data = <<>>
    /\ out = <<>>
    /\ log = <<>>
    /\ success_count = 0
    /\ IdleDist

NextRace == \E inv \in Invocations : Check(inv) \/ Fetch(inv)

SpecRace == InitRace /\ [][NextRace]_vars

\* invocation a returned before invocation b began
Sequential(a, b) ==
    /\ pc[a] = "done"
    /\ \A i, j \in 1..Len(log) :
        (log[i].inv = a /\ log[j].inv = b) => i < j

\* invocation a wrote the destination; it returned fetched=True
Wrote(a) == \E j \in 1..Len(log) : log[j].inv = a /\ log[j].wrote
ReturnedFetched(a) ==
    \E j \in 1..Len(log) :
        log[j].inv = a /\ ~log[j].raised /\ log[j].ret.fetched

-----------------------------------------------------------------------------
(* SpecDistribute: distribute.py, the entries of the input given to the
   annotators in turn.  The source has 9 annotators and 635 entries at most
   for each; the model keeps the program and scales the two numbers. *)

\* the first NumAnnotators of the list of annotators
ANNOTATORS ==
    SubSeq(<<"a1", "a2", "a3", "a4", "a5", "a6", "a7", "a8", "a9">>,
           1, NumAnnotators)

MAX_ENTRIES_PER_ANNOTATOR == MaxPerAnnotator

Annotators == {ANNOTATORS[i] : i \in 1..Len(ANNOTATORS)}

\* entry.get("annotator_1", ""): an annotator of the list, or none
NoAnnotator == ""
FirstAnnotators == Annotators \cup {NoAnnotator}

\* the entries the input file can hold, one per line, uniqueId the number
\* of the line
EntryLists ==
    UNION {{[i \in 1..n |-> [uniqueId |-> i, annotator_1 |-> first[i]]] :
                first \in [1..n -> FirstAnnotators]} : n \in 0..MaxDistEntries}

\* the orders random.shuffle can leave n entries in
Orders(n) == {f \in [1..n -> 1..n] : \A i, j \in 1..n : f[i] = f[j] => i = j}

\* the annotator the round-robin index points at
Annotator == ANNOTATORS[(annotator_idx % Len(ANNOTATORS)) + 1]

\* the test of the while loop with `annotator == entry.get("annotator_1", "")`
\* left out
PassesOverOwnIgnored(annotator, entry) ==
    \/ entries_per_annotator[annotator] >= MAX_ENTRIES_PER_ANNOTATOR
    \/ annotator \in distributed

\* the test of the while loop: the annotator is passed over
PassesOver(annotator, entry) ==
    \/ annotator = entry.annotator_1
    \/ entries_per_annotator[annotator] >= MAX_ENTRIES_PER_ANNOTATOR
    \/ annotator \in distributed

\* random.shuffle(entries); annotator_idx = 0; entries_per_annotator = {...}
Shuffle ==
    /\ pc = "shuffle"
    /\ \E order \in Orders(Len(data)) :
        data' = [i \in 1..Len(data) |-> data[order[i]]]
    /\ annotator_idx' = 0
    /\ entries_per_annotator' = [a \in Annotators |-> 0]
    /\ out' = [a \in Annotators |-> <<>>]
    /\ pc' = "for"
    /\ UNCHANGED <<fs, tmp, ffmpeg, req, calls, crops, run, idx, ref,
                   audio_data, log, success_count, entry_cnt, distributed>>

\* `for entry in entries:` takes the next entry, or ends
ForEntry ==
    /\ pc = "for"
    /\ IF idx < Len(data)
       THEN /\ entry_cnt' = 2
            /\ distributed' = {}
            /\ pc' = "while"
       ELSE /\ pc' = "done"
            /\ UNCHANGED <<entry_cnt, distributed>>
    /\ UNCHANGED <<fs, tmp, ffmpeg, req, calls, crops, data, run, idx, ref,
                   audio_data, out, log, success_count, annotator_idx,
                   entries_per_annotator>>

\* one iteration of `while entry_cnt > 0:` that passes over the annotator.
\* annotator_idx is only ever read modulo len(ANNOTATORS), and is kept so.
PassOver ==
    /\ pc = "while"
    /\ PassesOver(Annotator, data[idx + 1])
    /\ annotator_idx' = (annotator_idx + 1) % Len(ANNOTATORS)
    /\ UNCHANGED <<fs, tmp, ffmpeg, req, calls, crops, mainVars,
                   entries_per_annotator, entry_cnt, distributed>>

\* one iteration of `while entry_cnt > 0:` that gives the entry to the
\* annotator: a line appended to the annotator's file; the loop is left
\* when the entry has been given twice
Assign ==
    /\ pc = "while"
    /\ ~PassesOver(Annotator, data[idx + 1])
    /\ entries_per_annotator' =
          [entries_per_annotator EXCEPT ![Annotator] = @ + 1]
    /\ distributed' = distributed \cup {Annotator}
    /\ out' = [out EXCEPT ![Annotator] = Append(@, data[idx + 1])]
    /\ annotator_idx' = (annotator_idx + 1) % Len(ANNOTATORS)
    /\ entry_cnt' = entry_cnt - 1
    /\ IF entry_cnt - 1 > 0
       THEN UNCHANGED <<pc, idx>>
       ELSE pc' = "for" /\ idx' = idx + 1
    /\ UNCHANGED <<fs, tmp, ffmpeg, req, calls, crops, data, run, ref,
                   audio_data, log, success_count>>

InitDistribute ==
    /\ fs = EmptyFs
    /\ tmp = {}
    /\ ffmpeg = TRUE
    /\ req = [program |-> "distribute"]
    /\ calls = <<>>
    /\ crops = <<>>
    /\ data \in EntryLists
    /\ run = 1
    /\ pc = "shuffle"
    /\ idx = 0
    /\ ref = 0
    /\ audio_data = <<>>
    /\ out = <<>>
    /\ log = <<>>
    /\ success_count = 0
    /\ IdleDist

NextDistribute == Shuffle \/ ForEntry \/ PassOver \/ Assign

SpecDistribute == InitDistribute /\ [][NextDistribute]_vars

\* the script runs as long as it has a step to take
SpecDistributeFair == SpecDistribute /\ WF_vars(NextDistribute)

\* the annotators whose file holds the entry, and the lines of a file
\* that are the entry
Holders(entry) ==
    {a \in Annotators : \E k \in 1..Len(out[a]) : out[a][k] = entry}
Copies(a, entry) == Cardinality({k \in 1..Len(out[a]) : out[a][k] = entry})

\* C28: at every step entries_per_annotator[a] is the number of lines
\* written to a's file in this run, and it is never more than
\* MAX_ENTRIES_PER_ANNOTATOR; when distribute.py has completed, every entry
\* of the input is in the files of exactly two annotators, once in each,
\* neither of them the entry's annotator_1.
C28_TwoOtherAnnotators ==
    pc # "shuffle" =>
        /\ \A a \in Annotators :
            /\ entries_per_annotator[a] = Len(out[a])
            /\ Len(out[a]) <= MAX_ENTRIES_PER_ANNOTATOR
        /\ pc = "done" =>
            \A i \in 1..Len(data) :
                /\ Cardinality(Holders(data[i])) = 2
                /\ \A a \in Holders(data[i]) :
                    a # data[i].annotator_1 /\ Copies(a, data[i]) = 1

\* distribute.py completed on an input that fills an annotator and has
\* entries with an annotator_1 of the list
C28_Witness ==
    /\ pc = "done"
    /\ Len(data) = MaxDistEntries
    /\ \E a \in Annotators : Len(out[a]) = MAX_ENTRIES_PER_ANNOTATOR
    /\ \E i \in 1..Len(data) : data[i].annotator_1 \in Annotators

\* the demand of the input fits the capacity of the annotators
Capacity == Len(ANNOTATORS) * MAX_ENTRIES_PER_ANNOTATOR
FitsCapacity == Len(data) + Len(data) <= Capacity

\* C29: for every input whose demand fits the capacity (2 x the number of
\* entries <= the number of annotators x MAX_ENTRIES_PER_ANNOTATOR) the
\* assignment loop terminates: the inner while loop finds two annotators
\* for each entry and distribute.py completes.
C29_AssignmentTerminates ==
    (pc = "shuffle" /\ FitsCapacity) ~> (pc = "done")

=============================================================================
